---- MODULE Spec2Model ----
(***************************************************************************)
(* base::JointsTrajectory (src/base/JointsTrajectory.hpp): a time series   *)
(* of JointState per joint, with optional names and optional sample times. *)
(*                                                                         *)
(* The object is the three public members elements, names and times.  A    *)
(* fourth variable, call, records the most recent call on the object: the  *)
(* operation, its arguments, and what it returned or threw.  The output    *)
(* parameter of getJointsAtTimeStep is an argument of that call, so the    *)
(* record holds it before (joints_in) and after (joints) the call.         *)
(*                                                                         *)
(* Sequences are 1-based here and 0-based in the source: elements[i][s] of *)
(* the source is elements[i + 1][s + 1] of the model.  Joint counts, step  *)
(* counts and time steps keep the source's values (0-based, sizes).        *)
(***************************************************************************)
EXTENDS Integers, Sequences, FiniteSets

VARIABLES elements, names, times, call

vars == <<elements, names, times, call>>

\* Bounds of the model.
MaxJoints == 2
MaxSteps == 3

(***************************************************************************)
(* The value types the header takes from elsewhere in the library.         *)
(***************************************************************************)
\* JointState(): the default-constructed state resize() pads with.
DefaultJointState == <<"unset">>

\* A JointState a caller has written for joint i at time step s.
Sample(i, s) == <<"q", i, s>>

\* What a read past the end of a series yields when the process survives it.
Indeterminate == <<"indeterminate">>

\* std::string(): the name resize() pads with.
DefaultName == <<>>

\* A name a caller has given joint i.
JointName(i) == <<"j", i>>

\* base::Time(): zero microseconds.
TimeZero == 0

\* base::Time::operator+ on the microsecond counts.
TimeAdd(a, b) == a + b

\* std::vector<T>::resize(n): the first n elements kept, the rest padded.
VectorResize(v, n, pad) == [k \in 1..n |-> IF k <= Len(v) THEN v[k] ELSE pad]

\* base::samples::Joints() as a caller passes it in: names and elements.
EmptyJoints == [names |-> <<>>, elements |-> <<>>]

\* NamedVector<JointState>::resize(n) on the output structure.
JointsResize(joints, n) ==
    [names |-> VectorResize(joints.names, n, DefaultName),
     elements |-> VectorResize(joints.elements, n, DefaultJointState)]

(***************************************************************************)
(* The const queries, computed as the source computes them.                *)
(***************************************************************************)
\* As getTimeSteps, taking the step count from the last series.
getTimeSteps_last ==
    IF elements # <<>> THEN Len(elements[Len(elements)]) ELSE 0

getTimeSteps == IF elements # <<>> THEN Len(elements[1]) ELSE 0

getNumberOfJoints == Len(elements)

isTimed == times # <<>>

\* The loop of isValid over the joint series, from index i on.
RECURSIVE SeriesMatch(_, _)
SeriesMatch(i, samples) ==
    IF i > Len(elements) THEN TRUE
    ELSE IF Len(elements[i]) # samples THEN FALSE
    ELSE SeriesMatch(i + 1, samples)

\* As TimesMatch, without the test for an empty times vector.
TimesMatch_sizeOnly(samples) == Len(times) = samples

\* The check of isValid on the times vector.
TimesMatch(samples) == ~(times # <<>> /\ Len(times) # samples)

isValid ==
    LET samples == getTimeSteps
    IN  IF ~SeriesMatch(1, samples) THEN FALSE
        ELSE TimesMatch(samples)

\* The loop of getDuration: summed = summed + times[i], from index i on.
RECURSIVE DurationLoop(_, _)
DurationLoop(i, summed) ==
    IF i > Len(times) THEN summed
    ELSE DurationLoop(i + 1, TimeAdd(summed, times[i]))

\* As getDuration, taking the span from the first to the last sample.
getDuration_span ==
    IF times = <<>> THEN TimeZero ELSE times[Len(times)] - times[1]

getDuration == DurationLoop(1, TimeZero)

\* The program runs until a read out of bounds faults.
Running == call.result # "crashed"

Init ==
    /\ elements = <<>>
    /\ names = <<>>
    /\ times = <<>>
    /\ call = [op |-> "JointsTrajectory", result |-> "returned"]

(***************************************************************************)
(* The caller's direct writes to the public members.                       *)
(***************************************************************************)
\* elements[i].resize(num_samples) on one joint series.
SeriesResize(i, num_samples) ==
    /\ Running
    /\ i \in 1..Len(elements)
    /\ elements' = [elements EXCEPT
                      ![i] = VectorResize(@, num_samples, DefaultJointState)]
    /\ call' = [op |-> "elements[i].resize", result |-> "returned"]
    /\ UNCHANGED <<names, times>>

\* elements[i][s] = a state of the caller's, for every step s of series i.
FillSeries(i) ==
    /\ Running
    /\ i \in 1..Len(elements)
    /\ elements' = [elements EXCEPT
                      ![i] = [s \in 1..Len(@) |-> Sample(i - 1, s - 1)]]
    /\ call' = [op |-> "elements[i][s] =", result |-> "returned"]
    /\ UNCHANGED <<names, times>>

\* names[i] = a name of the caller's, for every joint i.
FillNames ==
    /\ Running
    /\ names' = [i \in 1..Len(names) |-> JointName(i - 1)]
    /\ call' = [op |-> "names[i] =", result |-> "returned"]
    /\ UNCHANGED <<elements, times>>

\* times = ts.
SetTimes(ts) ==
    /\ Running
    /\ times' = ts
    /\ call' = [op |-> "times =", result |-> "returned"]
    /\ UNCHANGED <<elements, names>>

(***************************************************************************)
(* resize(int num_joints) and resize(int num_joints, int num_samples).     *)
(***************************************************************************)
\* As ResizedElements, with one default sample in each new series.
ResizedElements_padded(num_joints) ==
    VectorResize(elements, num_joints, <<DefaultJointState>>)

\* elements.resize(num_joints): a new series is an empty vector.
ResizedElements(num_joints) == VectorResize(elements, num_joints, <<>>)

\* As ResizedNames, with the names left alone.
ResizedNames_kept(num_joints) == names

\* names.resize(num_joints).
ResizedNames(num_joints) == VectorResize(names, num_joints, DefaultName)

\* As ResizedSeries, with the loop starting at the second series.
ResizedSeries_skipFirst(els, num_samples) ==
    [i \in 1..Len(els) |->
        IF i = 1 THEN els[i]
        ELSE VectorResize(els[i], num_samples, DefaultJointState)]

\* The loop of resize(num_joints, num_samples) over the resized elements.
ResizedSeries(els, num_samples) ==
    [i \in 1..Len(els) |-> VectorResize(els[i], num_samples, DefaultJointState)]

resize(num_joints) ==
    /\ Running
    /\ elements' = ResizedElements(num_joints)
    /\ names' = ResizedNames(num_joints)
    /\ call' = [op |-> "resize(int)", num_joints |-> num_joints,
                result |-> "returned"]
    /\ UNCHANGED times

resize2(num_joints, num_samples) ==
    /\ Running
    /\ elements' = ResizedSeries(ResizedElements(num_joints), num_samples)
    /\ names' = ResizedNames(num_joints)
    /\ call' = [op |-> "resize(int,int)", num_joints |-> num_joints,
                num_samples |-> num_samples, result |-> "returned"]
    /\ UNCHANGED times

(***************************************************************************)
(* The const queries as calls: the record keeps what each returned.        *)
(***************************************************************************)
Query(op, ret) ==
    /\ Running
    /\ call' = [op |-> op, ret |-> ret, result |-> "returned"]
    /\ UNCHANGED <<elements, names, times>>

CallIsValid == Query("isValid", isValid)

CallIsTimed == Query("isTimed", isTimed)

CallGetTimeSteps == Query("getTimeSteps", getTimeSteps)

CallGetNumberOfJoints == Query("getNumberOfJoints", getNumberOfJoints)

CallGetDuration == Query("getDuration", getDuration)

(***************************************************************************)
(* getJointsAtTimeStep(size_t time_step, base::samples::Joints& joints).   *)
(***************************************************************************)
\* As InvalidTimeStep, carrying the step count in place of the request.
InvalidTimeStep_steps(time_step) ==
    [what |-> "InvalidTimeStep", time_step |-> getTimeSteps]

\* struct InvalidTimeStep: the exception and the time step it carries.
InvalidTimeStep(time_step) == [what |-> "InvalidTimeStep", time_step |-> time_step]

\* As OutOfRange, rejecting the step count itself as well.
OutOfRange_strict(time_step) == time_step >= getTimeSteps

\* The guard of the throw.
OutOfRange(time_step) == time_step > getTimeSteps

\* Whether elements[i][time_step] is an element of series i.
Exists(i, time_step) == time_step + 1 <= Len(elements[i])

\* The joints whose read elements[i][time_step] is out of bounds.
BadReads(time_step) ==
    {i \in 1..getNumberOfJoints : ~Exists(i, time_step)}

\* As ReadElement, reading the last sample of the series.
ReadElement_last(i, time_step) ==
    IF Exists(i, time_step) THEN elements[i][Len(elements[i])] ELSE Indeterminate

\* The value the read elements[i][time_step] yields.
ReadElement(i, time_step) ==
    IF Exists(i, time_step) THEN elements[i][time_step + 1] ELSE Indeterminate

\* joints.resize(getNumberOfJoints()); joints.names = names;
Prepared(joints) ==
    [JointsResize(joints, getNumberOfJoints) EXCEPT !.names = names]

\* The copy loop, run for the joints before index stop.
Copied(joints, time_step, stop) ==
    [joints EXCEPT !.elements =
        [i \in 1..Len(joints.elements) |->
            IF i < stop THEN ReadElement(i, time_step) ELSE joints.elements[i]]]

(* A read out of bounds is undefined: the process either faults at one of  *)
(* the bad reads (fault = its index) or reads an indeterminate value at    *)
(* each and returns (fault = 0).                                           *)
getJointsAtTimeStep(time_step, joints) ==
    /\ Running
    /\ UNCHANGED <<elements, names, times>>
    /\ IF OutOfRange(time_step)
       THEN call' = [op |-> "getJointsAtTimeStep", time_step |-> time_step,
                     joints_in |-> joints, joints |-> joints,
                     result |-> "InvalidTimeStep",
                     thrown |-> InvalidTimeStep(time_step),
                     bad_reads |-> {}]
       ELSE \E fault \in BadReads(time_step) \cup {0} :
              call' = [op |-> "getJointsAtTimeStep", time_step |-> time_step,
                       joints_in |-> joints,
                       joints |-> Copied(Prepared(joints), time_step,
                                          IF fault = 0
                                          THEN getNumberOfJoints + 1
                                          ELSE fault),
                       result |-> IF fault = 0 THEN "returned" ELSE "crashed",
                       thrown |-> <<>>,
                       bad_reads |-> IF fault = 0
                                     THEN BadReads(time_step)
                                     ELSE {i \in BadReads(time_step) : i <= fault}]

(***************************************************************************)
(* The inputs of the calls.                                                *)
(***************************************************************************)
\* The joint counts and sample counts passed to resize: sizes, from 0 up.
JointCounts == 0..MaxJoints

SampleCounts == 0..MaxSteps

\* Time steps up to two past the largest step count.
TimeStepArgs == 0..(MaxSteps + 1)

\* Output structures as a caller may pass them: fresh, or holding old data.
StaleJoints ==
    [names |-> <<JointName(7)>>,
     elements |-> [i \in 1..(MaxJoints + 1) |-> Sample(7, i)]]

JointsArgs == {EmptyJoints, StaleJoints}

\* The microsecond counts a caller stamps samples with.
TimeValues == {1, 2}

\* Every times vector of exactly k samples.
RECURSIVE TimesOfLen(_)
TimesOfLen(k) ==
    IF k = 0 THEN {<<>>}
    ELSE {Append(ts, t) : ts \in TimesOfLen(k - 1), t \in TimeValues}

\* Every times vector of up to MaxSteps samples.
TimesArgs == UNION {TimesOfLen(k) : k \in 0..MaxSteps}

\* The times vector of k samples stamped with their sample index.
Stamps(k) == [s \in 1..k |-> s]

\* One times vector of each length.
StampsArgs == {Stamps(k) : k \in 0..MaxSteps}

\* No times, one sample's, and those of the longest series.
FewStampsArgs == {Stamps(k) : k \in {0, 1, MaxSteps}}

(***************************************************************************)
(* Spec: a caller that sizes the trajectory, fills it in and extracts      *)
(* time steps from it.                                                     *)
(***************************************************************************)
Next ==
    \/ \E n \in JointCounts : resize(n)
    \/ \E n \in JointCounts, m \in SampleCounts : resize2(n, m)
    \/ \E i \in 1..MaxJoints : FillSeries(i)
    \/ FillNames
    \/ \E ts \in FewStampsArgs : SetTimes(ts)
    \/ \E t \in TimeStepArgs, j \in JointsArgs : getJointsAtTimeStep(t, j)

Spec == Init /\ [][Next]_vars

(***************************************************************************)
(* SpecShape: a caller that reshapes the series one by one and asks for    *)
(* the shape.                                                              *)
(***************************************************************************)
NextShape ==
    \/ \E n \in JointCounts : resize(n)
    \/ \E n \in JointCounts, m \in SampleCounts : resize2(n, m)
    \/ \E i \in 1..MaxJoints, m \in SampleCounts : SeriesResize(i, m)
    \/ \E ts \in StampsArgs : SetTimes(ts)
    \/ CallIsValid
    \/ CallIsTimed
    \/ CallGetTimeSteps
    \/ CallGetNumberOfJoints

SpecShape == Init /\ [][NextShape]_vars

(***************************************************************************)
(* SpecResize: only the two resize operations and the queries.             *)
(***************************************************************************)
NextResize ==
    \/ \E n \in JointCounts : resize(n)
    \/ \E n \in JointCounts, m \in SampleCounts : resize2(n, m)
    \/ CallIsValid
    \/ CallIsTimed
    \/ CallGetTimeSteps
    \/ CallGetNumberOfJoints
    \/ CallGetDuration
    \/ \E t \in TimeStepArgs, j \in JointsArgs : getJointsAtTimeStep(t, j)

SpecResize == Init /\ [][NextResize]_vars

(***************************************************************************)
(* SpecDuration: a caller that stamps the samples and asks for the         *)
(* duration.                                                               *)
(***************************************************************************)
NextDuration ==
    \/ \E n \in JointCounts, m \in SampleCounts : resize2(n, m)
    \/ \E ts \in TimesArgs : SetTimes(ts)
    \/ CallIsTimed
    \/ CallGetDuration

SpecDuration == Init /\ [][NextDuration]_vars

(***************************************************************************)
(* The properties.                                                         *)
(***************************************************************************)
\* The length every series is compared with: that of the first, or zero.
FirstLen == IF Len(elements) = 0 THEN 0 ELSE Len(elements[1])

\* The lengths of the joint series, in order.
Shape == [i \in 1..Len(elements) |-> Len(elements[i])]

Extracted == call.op = "getJointsAtTimeStep"

\* C1: isValid() returns true exactly when every joint series is as long as
\* the first one (zero without joints) and times is empty or of that length.
C1_IsValidIff ==
    call.op = "isValid" =>
        (call.ret <=>
            /\ \A i \in 1..Len(elements) : Len(elements[i]) = FirstLen
            /\ (Len(times) = 0 \/ Len(times) = FirstLen))

C1_Witness ==
    /\ call.op = "isValid"
    /\ call.ret
    /\ Len(elements) = MaxJoints
    /\ FirstLen > 0
    /\ Len(times) = FirstLen

\* C2: getJointsAtTimeStep throws InvalidTimeStep for every time_step that is
\* not strictly less than getTimeSteps(), so a call that returns has read only
\* existing elements.
C2_ThrowsUnlessBelowSteps ==
    Extracted =>
        /\ (~(call.time_step < getTimeSteps) => call.result = "InvalidTimeStep")
        /\ (call.result = "returned" => call.bad_reads = {})

C4_ExtractsTimeStep ==
    (Extracted /\ isValid /\ call.time_step < getTimeSteps) =>
        /\ call.result = "returned"
        /\ Len(call.joints.elements) = Len(elements)
        /\ call.joints.names = names
        /\ \A i \in 1..Len(elements) :
              call.joints.elements[i] = elements[i][call.time_step + 1]

C4_Witness ==
    /\ Extracted
    /\ isValid
    /\ call.time_step = 1
    /\ getTimeSteps = MaxSteps
    /\ Len(elements) = MaxJoints
    /\ \A i \in 1..Len(elements) : elements[i][2] = Sample(i - 1, 1)
    /\ names # [i \in 1..Len(names) |-> DefaultName]
    /\ call.joints_in # EmptyJoints
    /\ call.joints.elements # call.joints_in.elements

\* C5: resize(n, m) leaves n joint series, each of m steps, and the times it
\* found; getTimeSteps() is m when n > 0, and isValid() holds when times is
\* empty.
C5_ResizeSamples ==
    [][call'.op = "resize(int,int)" =>
        /\ getNumberOfJoints' = call'.num_joints
        /\ \A i \in 1..Len(elements') : Len(elements'[i]) = call'.num_samples
        /\ (call'.num_joints > 0 => getTimeSteps' = call'.num_samples)
        /\ times' = times
        /\ (times' = <<>> => isValid')]_vars

C5_Witness ==
    /\ call.op = "resize(int,int)"
    /\ call.num_joints = MaxJoints
    /\ call.num_samples = MaxSteps - 1
    /\ Shape = [i \in 1..MaxJoints |-> MaxSteps - 1]
    /\ Len(times) = MaxSteps

\* The sum of ts from index k on.
RECURSIVE SumFrom(_, _)
SumFrom(ts, k) == IF k > Len(ts) THEN 0 ELSE ts[k] + SumFrom(ts, k + 1)

\* C6: getDuration() is the sum of all of times, in index order, and zero
\* when times is empty.
C6_DurationIsSum ==
    call.op = "getDuration" =>
        /\ call.ret = SumFrom(times, 1)
        /\ (times = <<>> => call.ret = 0)

C6_Witness ==
    /\ call.op = "getDuration"
    /\ Len(times) = MaxSteps
    /\ times[1] # times[2]
    /\ call.ret # times[Len(times)] - times[1]
    /\ elements # <<>>

\* C7: resize(n) leaves n series and n names: those below the old count as
\* they were, new series empty and new names empty; times as it was.
C7_ResizeJoints ==
    [][call'.op = "resize(int)" =>
        /\ Len(elements') = call'.num_joints
        /\ Len(names') = call'.num_joints
        /\ \A i \in 1..call'.num_joints :
              /\ elements'[i] = IF i <= Len(elements) THEN elements[i] ELSE <<>>
              /\ names'[i] = IF i <= Len(names) THEN names[i] ELSE DefaultName
        /\ times' = times]_vars

C7_Witness ==
    /\ call.op = "resize(int)"
    /\ call.num_joints = MaxJoints
    /\ Len(elements[1]) > 0
    /\ elements[1][1] # DefaultJointState
    /\ elements[MaxJoints] = <<>>
    /\ names[1] # DefaultName
    /\ names[MaxJoints] = DefaultName
    /\ times # <<>>

\* C8: getTimeSteps() is the length of the first series, or 0 without joints,
\* whatever the other series are: with series of 3 and 2 steps isValid() is
\* false and getTimeSteps() is 3.
C8_TimeStepsOfFirst ==
    /\ call.op = "getTimeSteps" => call.ret = FirstLen
    /\ (call.op = "getTimeSteps" /\ Shape = <<3, 2>>) => call.ret = 3
    /\ (call.op = "isValid" /\ Shape = <<3, 2>>) => call.ret = FALSE

C8_Witness ==
    /\ call.op = "getTimeSteps"
    /\ Shape = <<3, 2>>
    /\ call.ret = 3
    /\ ~isValid

\* C9: a call that throws InvalidTimeStep carries the requested time_step and
\* leaves the trajectory and the output as they were; a call that returns
\* leaves the trajectory as it was.
C9_ThrowLeavesAll ==
    [][call'.op = "getJointsAtTimeStep" =>
        /\ elements' = elements
        /\ names' = names
        /\ times' = times
        /\ (call'.result = "InvalidTimeStep" =>
                /\ call'.thrown.time_step = call'.time_step
                /\ call'.joints = call'.joints_in)]_vars

C9_Witness ==
    /\ Extracted
    /\ call.result = "InvalidTimeStep"
    /\ call.time_step = getTimeSteps + 1
    /\ call.joints_in # EmptyJoints
    /\ Len(elements) = MaxJoints
    /\ getTimeSteps > 0
    /\ times # <<>>

\* C10: from the empty trajectory, through resize(n), resize(n, m) and the
\* queries, there are as many names as joint series.
C10_NamesMatchJoints == Len(names) = Len(elements)

C10_Witness ==
    /\ call.op = "getNumberOfJoints"
    /\ call.ret = MaxJoints
    /\ Len(names) = MaxJoints
    /\ Shape = <<MaxSteps, 0>> \o [i \in 1..(MaxJoints - 2) |-> 0]

====
